---- MODULE Spec2Model ----
(***************************************************************************)
(* Model of the sliding-window rate limiter of                            *)
(* backend/app/middleware/rate_limiter.py (RateLimiterMiddleware), of the  *)
(* Redis sorted-set store it talks to through redis_client, of the         *)
(* middleware stack and routes of backend/app/main.py, and of the task     *)
(* listing of backend/app/api/v1/endpoints/tasks.py.                       *)
(*                                                                         *)
(* Time is the integer second int(time.time()).  Header values are kept   *)
(* as the integers that dispatch passes to str().                         *)
(***************************************************************************)
EXTENDS Integers, Sequences, FiniteSets, Bags, TLC

\* ------------------------------------------------------------------ bounds
\* Number of requests that arrive in one behaviour of Spec.
MaxReqs == 2
\* Last second the wall clock reaches.
MaxTime == 4
\* Constructor arguments default_requests / default_window of the instance
\* under check (RateLimiterMiddleware(app, default_requests, default_window)).
DefaultRequests == 2
DefaultWindow == 3
\* Number of rows the task table grows to.
MaxTasks == 2
\* Number of requests that wait on the store together in SpecSeconds.
MaxInFlight == 3

\* ------------------------------------------------------ program constants
LoginRequests == 5
LoginWindow == 60
RegisterRequests == 3
RegisterWindow == 60
ProjectsRequests == 50
ProjectsWindow == 60
TasksRequests == 100
TasksWindow == 60
StatusTooManyRequests == 429
\* Status of a response produced by the downstream handler (call_next).
StatusHandler == 200

\* ------------------------------------------------------------------- state
VARIABLES
    clock,      \* int(time.time()), shared by the server and the store
    zset,       \* key -> members of the sorted set (empty: key absent)
    expire_at,  \* key -> second at which the key expires, NoTTL if none
    arrived,    \* number of requests dispatch has been called with
    inflight,   \* bag of the requests suspended in await pipe.execute()
    resp,       \* the request answered last and its response
    ref,        \* history: key -> bag of the current_time of every executed pipeline
    admitted,   \* history: key -> number of executed pipelines answered "allowed"
    batch,      \* history: no request reached the limiter after one was answered
    self,       \* the attributes of the RateLimiterMiddleware instance
    worker,     \* the server process that serves the next request
    hash_seed,  \* server process -> the seed of its str hash
    store_hangs,\* the store has stopped answering
    app_log,    \* the requests the application of create_application served
    task_table, \* rows of the tasks table
    listing,    \* the last read_tasks call and the rows it returned
    pipe,       \* bag of the pipelines the store has started and not finished
    ws_pc,      \* connection -> where its websocket_chat coroutine stands
    active_connections, \* manager.active_connections: user -> connection ids
    groups,     \* manager.groups: group -> (user -> connection id)
    online_users,       \* the store set online_users
    joined,     \* history: connections that joined the room and are still in it
    delivered   \* history: the last broadcast_to_group and who was sent it

limiterVars ==
    <<clock, zset, expire_at, arrived, inflight, resp, ref, admitted, batch, self>>
deployVars == <<worker, hash_seed, store_hangs>>
appVars == <<app_log>>
taskVars == <<task_table, listing>>
pipeVars == <<pipe>>
wsVars == <<ws_pc, active_connections, groups, online_users, joined, delivered>>

vars == <<limiterVars, deployVars, appVars, taskVars, pipeVars, wsVars>>

\* ------------------------------------------------------------------ inputs
Times == 0..MaxTime

\* request.client is None: the request has no source address.
NoClient == "<no client>"

\* The requests that arrive: (request.client, user-agent, path).
Inputs ==
    { <<"10.0.0.1", "curl", "/api/v1/items">>,
      <<"10.0.0.2", "curl", "/api/v1/items">>,
      <<"10.0.0.1", "curl", "/api/v1/auth/login">>,
      <<"10.0.0.1", "curl", "/health">>,
      <<"127.0.0.1", "curl", "/api/v1/items">>,
      <<NoClient, "curl", "/api/v1/items">> }

\* A burst of one client, for one path under the default policy or for an
\* exempt path.
BurstInputs ==
    { <<"10.0.0.1", "curl", "/api/v1/items">>,
      <<"10.0.0.1", "curl", "/health">> }

\* Requests for the routes of the api router, as the handlers are mounted.
RouteInputs ==
    { <<"10.0.0.1", "curl", "/api/v1/auth/login">>,
      <<"10.0.0.1", "curl", "/api/v1/projects/">>,
      <<"10.0.0.1", "curl", "/api/v1/tasks/">> }

\* Requests sent to the application of create_application.
AppInputs ==
    { <<"10.0.0.1", "curl", "/health">>,
      <<"10.0.0.1", "curl", "/api/v1/auth/login">>,
      <<"10.0.0.1", "curl", "/api/v1/projects/">> }

\* One client on one path under the default policy.
SecondsInputs == { <<"10.0.0.1", "curl", "/api/v1/items">> }

AllInputs == Inputs \cup BurstInputs \cup RouteInputs \cup AppInputs \cup SecondsInputs

\* Server processes that share the store, and the seeds a process can draw
\* for its str hash at start-up.
Workers == {"w1", "w2"}
Seeds == {1, 2}

\* hash(user_agent) in a process whose str hash is seeded with `seed`,
\* rendered by the f-string.
HashIn(seed, user_agent) ==
    CASE seed = 1 /\ user_agent = "curl" -> "7731"
      [] seed = 1 /\ user_agent = "unknown" -> "-4102"
      [] seed = 2 /\ user_agent = "curl" -> "-2290"
      [] seed = 2 /\ user_agent = "unknown" -> "5518"
      [] OTHER -> "0"

\* hash(user_agent) of the serving process.
Hash(user_agent) == HashIn(hash_seed[worker], user_agent)

\* ----------------------------------------------------- pure helper methods
\* __init__: self.default_requests, self.default_window, self.endpoint_limits
default_requests == DefaultRequests
default_window == DefaultWindow

endpoint_limits ==
    [p \in {"/api/v1/auth/login", "/api/v1/auth/register",
            "/api/v1/projects", "/api/v1/tasks"} |->
        CASE p = "/api/v1/auth/login" ->
                [requests |-> LoginRequests, window |-> LoginWindow]
          [] p = "/api/v1/auth/register" ->
                [requests |-> RegisterRequests, window |-> RegisterWindow]
          [] p = "/api/v1/projects" ->
                [requests |-> ProjectsRequests, window |-> ProjectsWindow]
          [] p = "/api/v1/tasks" ->
                [requests |-> TasksRequests, window |-> TasksWindow]]

ExemptPaths_NoHealth == {"/metrics", "/docs", "/redoc"}

\* dispatch: request.url.path in ["/health", "/metrics", "/docs", "/redoc"]
ExemptPaths == {"/health", "/metrics", "/docs", "/redoc"}

ClientIp_NoFallback(client) == client

\* client_ip = request.client.host if request.client else "unknown"
ClientIp(client) == IF client = NoClient THEN "unknown" ELSE client

\* _get_client_id: f"{client_ip}:{hash(user_agent)}"
_get_client_id(client, user_agent) == ClientIp(client) \o ":" \o Hash(user_agent)

_is_exempt_user_Never(client) == FALSE

\* _is_exempt_user: client_ip in ["127.0.0.1", "localhost"]
_is_exempt_user(client) == ClientIp(client) \in {"127.0.0.1", "localhost"}

\* The instance as __init__ leaves it; exempt_users = set().
Constructed ==
    [default_requests |-> default_requests, default_window |-> default_window,
     endpoint_limits |-> endpoint_limits, exempt_users |-> {}]

SelfAfterDispatch_Remembering(instance, client, path) ==
    [instance EXCEPT !.exempt_users = @ \cup {ClientIp(client)}]

\* The instance after a call of dispatch: dispatch and the methods it
\* calls assign no attribute of self.
SelfAfterDispatch(instance, client, path) == instance

\* _get_endpoint_limits: self.endpoint_limits.get(path, default)
_get_endpoint_limits(path) ==
    IF path \in DOMAIN self.endpoint_limits
    THEN self.endpoint_limits[path]
    ELSE [requests |-> self.default_requests, window |-> self.default_window]

\* key = f"rate_limit:{client_id}:{endpoint}"
RateLimitKey_NoEndpoint(client_id, endpoint) == "rate_limit:" \o client_id

RateLimitKey(client_id, endpoint) == "rate_limit:" \o client_id \o ":" \o endpoint

\* The keys the requests can be filed under, in a process of any seed.
AllKeys ==
    {RateLimitKey(ClientIp(i[1]) \o ":" \o HashIn(s, i[2]), i[3]) :
        s \in Seeds, i \in AllInputs}

\* is_allowed = current_count <= max_requests
IsAllowed_Strict(current_count, max_requests) == current_count < max_requests

IsAllowed(current_count, max_requests) == current_count <= max_requests

\* current_count = results[1] + 1
CurrentCount(zcard_result) == zcard_result + 1

ResetTime_Late(current_time, window) == current_time + window + 1

\* reset_time = current_time + window
ResetTime(current_time, window) == current_time + window

\* ------------------------------------------------- Redis sorted-set commands
\* ZREMRANGEBYSCORE key min max: drops the members whose score lies in
\* [min, max], both ends included.
ZRemRangeByScore(members, min, max) == {m \in members : ~(min <= m /\ m <= max)}

\* ZCARD key
ZCard(members) == Cardinality(members)

ZAdd_Dropped(members, current_time) == members

\* ZADD key {str(current_time): current_time}: the member is the decimal
\* string of the second, so a second that is already a member is not added
\* twice.
ZAdd(members, current_time) == members \cup {current_time}

\* pipe.zremrangebyscore(key, 0, window_start), window_start = current_time - window
Trim_Exclusive(members, current_time, window) ==
    {m \in members : ~(0 <= m /\ m < current_time - window)}

Trim_Swapped(members, current_time, window) ==
    ZRemRangeByScore(members, current_time - window, 0)

Trim_None(members, current_time, window) == members

Trim(members, current_time, window) ==
    ZRemRangeByScore(members, 0, current_time - window)

Expire_Late(now, window) == now + window + 1

\* EXPIRE key window, executed by the store at its own time `now`.
Expire(now, window) == now + window

NoTTL == -1

\* What _check_rate_limit hands back to dispatch: the tuple
\* (is_allowed, current_count, reset_time), or an exception that leaves it.
Checked(zcard_result, max_requests, current_time, window) ==
    [raised |-> FALSE,
     is_allowed |-> IsAllowed(CurrentCount(zcard_result), max_requests),
     current_count |-> CurrentCount(zcard_result),
     reset_time |-> ResetTime(current_time, window)]

CheckFailed_Closed(current_time, window) ==
    [raised |-> FALSE, is_allowed |-> FALSE, current_count |-> 0,
     reset_time |-> ResetTime(current_time, window)]

\* except Exception as e: ... return True, 0, current_time + window
CheckFailed(current_time, window) ==
    [raised |-> FALSE, is_allowed |-> TRUE, current_count |-> 0,
     reset_time |-> ResetTime(current_time, window)]

RejectBody == "{\"detail\": \"Rate limit exceeded\"}"
\* Body of a response the downstream handler produced.
HandlerBody == "handler"

\* Response headers written by dispatch.
NoHeaders == [n \in {} |-> 0]

RejectHeaders(limit, reset_time, now) ==
    [n \in {"X-RateLimit-Limit", "X-RateLimit-Remaining", "X-RateLimit-Reset",
            "Retry-After"} |->
        CASE n = "X-RateLimit-Limit" -> limit
          [] n = "X-RateLimit-Remaining" -> 0
          [] n = "X-RateLimit-Reset" -> reset_time
          [] n = "Retry-After" -> reset_time - now]

AdmitHeaders_NoReset(limit, current_count, reset_time) ==
    [n \in {"X-RateLimit-Limit", "X-RateLimit-Remaining"} |->
        CASE n = "X-RateLimit-Limit" -> limit
          [] n = "X-RateLimit-Remaining" -> limit - current_count]

AdmitHeaders(limit, current_count, reset_time) ==
    [n \in {"X-RateLimit-Limit", "X-RateLimit-Remaining", "X-RateLimit-Reset"} |->
        CASE n = "X-RateLimit-Limit" -> limit
          [] n = "X-RateLimit-Remaining" -> limit - current_count
          [] n = "X-RateLimit-Reset" -> reset_time]

\* ------------------------------------------- application of main.py, api.py
\* app.user_middleware after create_application, outermost first
\* (add_middleware puts each class in front of the ones added before it).
user_middleware == <<"PrometheusMiddleware", "GZipMiddleware", "CORSMiddleware">>

\* The route function that serves a path: the routers of api.py under
\* settings.API_V1_STR, and the routes main.py declares on the app.  The
\* collection routes are declared as "/" under their router's prefix.
ServedBy(path) ==
    CASE path = "/health" -> "health_check"
      [] path = "/metrics" -> "metrics"
      [] path = "/api/v1/auth/login" -> "login"
      [] path = "/api/v1/auth/register" -> "register"
      [] path = "/api/v1/projects/" -> "read_projects"
      [] path = "/api/v1/tasks/" -> "read_tasks"
      [] OTHER -> "not_found"

\* ------------------------------------------------ tasks.py, task_service.py
Users == {1, 2}
ProjectIds == {1, 2}
\* project_id = None
NoProject == -1

\* The rows a paginated SELECT without ORDER BY can return: any
\* min(limit, |rows| - skip) of the rows that match.
Page(rows, skip, limit) ==
    LET left == IF Cardinality(rows) > skip THEN Cardinality(rows) - skip ELSE 0
        n == IF left < limit THEN left ELSE limit
    IN  {S \in SUBSET rows : Cardinality(S) = n}

\* TaskService.get_tasks_by_user: where(Task.owner_id == user_id)
get_tasks_by_user(table, user_id, skip, limit) ==
    Page({t \in table : t.owner_id = user_id}, skip, limit)

\* TaskService.get_tasks_by_project: where(Task.project_id == project_id)
get_tasks_by_project(table, project_id, skip, limit) ==
    Page({t \in table : t.project_id = project_id}, skip, limit)

\* read_tasks: `if project_id:` is false for None and for 0.
read_tasks(table, current_user, project_id, skip, limit) ==
    IF project_id # NoProject /\ project_id # 0
    THEN get_tasks_by_project(table, project_id, skip, limit)
    ELSE get_tasks_by_user(table, current_user, skip, limit)

\* TaskStatus; Unset stands for a status the body of an update leaves out
\* (task_update.status is None).
TaskStatuses == {"todo", "in_progress", "review", "done", "cancelled"}
Unset == "<unset>"
\* completion_date = None
NoDate == -1

\* TaskService.create_task: Task(**task.dict(), owner_id=user_id), the id
\* given by the table's sequence; is_completed and completion_date take
\* their column defaults.
create_task(table, task, user_id) ==
    table \cup {[id |-> Cardinality(table) + 1, owner_id |-> user_id,
                 project_id |-> task.project_id, status |-> task.status,
                 is_completed |-> FALSE, completion_date |-> NoDate]}

\* The row of update_task after the setattr loop and the completion
\* branches; utcnow is the second at which the update runs.
Updated(db_task, task_update, utcnow) ==
    LET set == [db_task EXCEPT !.status =
                   IF task_update.status = Unset THEN @ ELSE task_update.status]
    IN  IF task_update.status = "done" /\ ~set.is_completed
        THEN [set EXCEPT !.is_completed = TRUE, !.completion_date = utcnow]
        ELSE IF task_update.status # "done" /\ set.is_completed
        THEN [set EXCEPT !.is_completed = FALSE, !.completion_date = NoDate]
        ELSE set

\* TaskService.update_task: 404 for a missing task and 403 for another
\* user's task leave the table as it is.
update_task(table, task_id, task_update, user_id, utcnow) ==
    LET found == {t \in table : t.id = task_id}
    IN  IF found = {} THEN table
        ELSE LET db_task == CHOOSE t \in found : TRUE
             IN  IF db_task.owner_id # user_id THEN table
                 ELSE (table \ {db_task}) \cup {Updated(db_task, task_update, utcnow)}

\* ---------------------------------------------------- websocket manager
\* connection_id values; user 1 opens c1 and c2, user 2 opens c3.
Conns == {"c1", "c2", "c3"}
WsUsers == {1, 2}
UserOf(c) == IF c = "c3" THEN 2 ELSE 1
\* user_id not in self.groups[group_name]
NoConn == "<none>"
\* f"chat_{room_id}" of the one room under check
Room == "chat_r"

\* broadcast_to_group: the connections send_text is awaited on.
Recipients(grp, active, group_name) ==
    IF group_name \notin DOMAIN grp THEN {}
    ELSE {c \in Conns : /\ grp[group_name][UserOf(c)] = c
                        /\ c \in active[UserOf(c)]}

\* self.groups after join_group(user_id, connection_id, group_name)
join_group(grp, user_id, connection_id, group_name) ==
    [grp EXCEPT ![group_name][user_id] = connection_id]

\* self.groups after leave_group(user_id, group_name)
leave_group(grp, user_id, group_name) ==
    [grp EXCEPT ![group_name][user_id] = NoConn]

\* self.groups after the group loop of disconnect(user_id, connection_id)
DropFromGroups(grp, user_id, connection_id) ==
    [g \in DOMAIN grp |->
        [u \in WsUsers |->
            IF u = user_id /\ grp[g][u] = connection_id THEN NoConn ELSE grp[g][u]]]

NoBroadcast == [sent |-> FALSE, group |-> Room, to |-> {}, expected |-> {}]

NoListing ==
    [user |-> 0, project_id |-> NoProject, skip |-> 0, limit |-> 0, rows |-> {}]

\* -------------------------------------------------------------------- Init
NoResponse ==
    [host |-> "", agent |-> "", path |-> "", key |-> "",
     limit |-> 0, window |-> 0, current_time |-> 0,
     store_calls |-> 0, store_error |-> FALSE, evaluated |-> FALSE,
     before |-> {}, is_allowed |-> FALSE, current_count |-> 0, reset_time |-> 0,
     built_at |-> 0, status |-> 0, body |-> "", called_next |-> FALSE,
     raised |-> FALSE, headers |-> NoHeaders]

\* Everything but the server processes: the store is empty and answers,
\* nothing has arrived, the task table is empty.
InitState ==
    /\ clock = 0
    /\ zset = [k \in AllKeys |-> {}]
    /\ expire_at = [k \in AllKeys |-> NoTTL]
    /\ arrived = 0
    /\ inflight = EmptyBag
    /\ resp = NoResponse
    /\ ref = [k \in AllKeys |-> EmptyBag]
    /\ admitted = [k \in AllKeys |-> 0]
    /\ batch = TRUE
    /\ self = Constructed
    /\ store_hangs = FALSE
    /\ app_log = <<>>
    /\ task_table = {}
    /\ listing = NoListing
    /\ pipe = EmptyBag
    /\ ws_pc = [c \in Conns |-> "idle"]
    /\ active_connections = [u \in WsUsers |-> {}]
    /\ groups = [g \in {Room} |-> [u \in WsUsers |-> NoConn]]
    /\ online_users = {}
    /\ joined = {}
    /\ delivered = NoBroadcast

\* One server process.
Init ==
    /\ InitState
    /\ worker = "w1"
    /\ hash_seed = [w \in {"w1"} |-> 1]

\* Several server processes, each with the seed it drew at start-up.
InitWorkers ==
    /\ InitState
    /\ worker = "w1"
    /\ hash_seed \in [Workers -> Seeds]

\* ----------------------------------------------------------------- actions
\* The wall clock passes to the next second; the store reclaims the keys
\* whose time-to-live has run out.
Tick ==
    /\ clock < MaxTime
    /\ clock' = clock + 1
    /\ zset' = [k \in AllKeys |->
                  IF expire_at[k] # NoTTL /\ expire_at[k] <= clock + 1
                  THEN {} ELSE zset[k]]
    /\ expire_at' = [k \in AllKeys |->
                  IF expire_at[k] # NoTTL /\ expire_at[k] <= clock + 1
                  THEN NoTTL ELSE expire_at[k]]
    /\ UNCHANGED <<arrived, inflight, resp, ref, admitted, batch, self>>
    /\ UNCHANGED <<deployVars, appVars, taskVars, pipeVars, wsVars>>

\* Response of dispatch for a request that bypasses the limiter
\* (return await call_next(request)).
Bypass(host, agent, path) ==
    [NoResponse EXCEPT !.host = host, !.agent = agent, !.path = path,
                       !.status = StatusHandler, !.body = HandlerBody,
                       !.called_next = TRUE, !.built_at = clock]

\* The request as it waits for the store: what dispatch and
\* _check_rate_limit hold in their local variables.
Pending(host, agent, path) ==
    LET limits == _get_endpoint_limits(path)
    IN  [host |-> host, agent |-> agent, path |-> path,
         key |-> RateLimitKey(_get_client_id(host, agent), path),
         limit |-> limits.requests, window |-> limits.window,
         current_time |-> clock]

\* Whether dispatch passes the request on without consulting the limiter.
Exempted(host, path) == path \in ExemptPaths \/ _is_exempt_user(host)

\* dispatch up to its first await on the store: the exemptions, the policy,
\* current_time = int(time.time()) and the queued pipeline.  At most `cap`
\* requests arrive.
Arrive(cap, host, agent, path) ==
    /\ arrived < cap
    /\ arrived' = arrived + 1
    /\ IF Exempted(host, path)
       THEN /\ resp' = Bypass(host, agent, path)
            /\ UNCHANGED <<inflight, batch>>
       ELSE /\ inflight' = inflight (+) SetToBag({Pending(host, agent, path)})
            /\ batch' = (batch /\ resp.store_calls = 0)
            /\ UNCHANGED resp
    /\ self' = SelfAfterDispatch(self, host, path)
    /\ UNCHANGED <<clock, zset, expire_at, ref, admitted>>
    /\ UNCHANGED <<deployVars, appVars, taskVars, pipeVars, wsVars>>

Dispatch(host, agent, path) == Arrive(MaxReqs, host, agent, path)

\* The response dispatch builds from what _check_rate_limit returned;
\* `before` is the sorted set as the pipeline found it.
Respond(q, store_error, before, result) ==
    LET base == [NoResponse EXCEPT
                   !.host = q.host, !.agent = q.agent, !.path = q.path,
                   !.key = q.key, !.limit = q.limit, !.window = q.window,
                   !.current_time = q.current_time, !.store_calls = 1,
                   !.store_error = store_error, !.evaluated = ~store_error,
                   !.before = before,
                   !.is_allowed = result.is_allowed,
                   !.current_count = result.current_count,
                   !.reset_time = result.reset_time,
                   !.built_at = clock]
    IN  IF result.raised
        THEN [base EXCEPT !.raised = TRUE]
        ELSE IF ~result.is_allowed
        THEN [base EXCEPT !.status = StatusTooManyRequests, !.body = RejectBody,
                          !.headers = RejectHeaders(q.limit, result.reset_time, clock)]
        ELSE [base EXCEPT !.status = StatusHandler, !.body = HandlerBody,
                          !.called_next = TRUE,
                          !.headers = AdmitHeaders(q.limit, result.current_count,
                                                   result.reset_time)]

\* The store executes the MULTI/EXEC pipeline of request q as one unit
\* (zremrangebyscore, zcard, zadd, expire), _check_rate_limit returns and
\* dispatch answers.
StoreExecute(q) ==
    /\ ~store_hangs
    /\ BagIn(q, inflight)
    /\ LET k == q.key
           trimmed == Trim(zset[k], q.current_time, q.window)
           result == Checked(ZCard(trimmed), q.limit, q.current_time, q.window)
       IN  /\ zset' = [zset EXCEPT ![k] = ZAdd(trimmed, q.current_time)]
           /\ expire_at' = [expire_at EXCEPT ![k] = Expire(clock, q.window)]
           /\ resp' = Respond(q, FALSE, zset[k], result)
           /\ ref' = [ref EXCEPT ![k] = @ (+) SetToBag({q.current_time})]
           /\ admitted' = [admitted EXCEPT ![k] =
                              IF result.is_allowed THEN @ + 1 ELSE @]
    /\ inflight' = inflight (-) SetToBag({q})
    /\ UNCHANGED <<clock, arrived, batch, self>>
    /\ UNCHANGED <<deployVars, appVars, taskVars, pipeVars, wsVars>>

\* redis_client raises (connection refused, reset, ...) anywhere between
\* pipeline() and execute(); the store executed nothing and
\* _check_rate_limit leaves through its except branch.
StoreError(q) ==
    /\ ~store_hangs
    /\ BagIn(q, inflight)
    /\ resp' = Respond(q, TRUE, {}, CheckFailed(q.current_time, q.window))
    /\ inflight' = inflight (-) SetToBag({q})
    /\ UNCHANGED <<clock, zset, expire_at, arrived, ref, admitted, batch, self>>
    /\ UNCHANGED <<deployVars, appVars, taskVars, pipeVars, wsVars>>

Next ==
    \/ Tick
    \/ \E i \in Inputs : Dispatch(i[1], i[2], i[3])
    \/ \E q \in BagToSet(inflight) : StoreExecute(q)
    \/ \E q \in BagToSet(inflight) : StoreError(q)

Spec == Init /\ [][Next]_vars

\* A burst: 2 * default_requests requests of one client.
BurstReqs == 2 * default_requests

Burst(host, agent, path) == Arrive(BurstReqs, host, agent, path)

BurstNext ==
    \/ Tick
    \/ \E i \in BurstInputs : Burst(i[1], i[2], i[3])
    \/ \E q \in BagToSet(inflight) : StoreExecute(q)
    \/ \E q \in BagToSet(inflight) : StoreError(q)

SpecBurst == Init /\ [][BurstNext]_vars

\* default_window + 2 requests of one key, a request in each second of a
\* window and more, served by a store that does not fail.
SecondsReqs == default_window + 2

Seconds(host, agent, path) ==
    /\ BagCardinality(inflight) < MaxInFlight
    /\ Arrive(SecondsReqs, host, agent, path)

SecondsNext ==
    \/ Tick
    \/ \E i \in SecondsInputs : Seconds(i[1], i[2], i[3])
    \/ \E q \in BagToSet(inflight) : StoreExecute(q)

SpecSeconds == Init /\ [][SecondsNext]_vars

\* Requests for the mounted routes of the api router reach the limiter.
RoutesNext ==
    \/ Tick
    \/ \E i \in RouteInputs : Dispatch(i[1], i[2], i[3])
    \/ \E q \in BagToSet(inflight) : StoreExecute(q)
    \/ \E q \in BagToSet(inflight) : StoreError(q)

SpecRoutes == Init /\ [][RoutesNext]_vars

\* The store stops answering: the connection stays open and no reply and no
\* error ever comes back.  redis.from_url is called without socket_timeout
\* and _check_rate_limit awaits pipe.execute() without a deadline, so no
\* step of the server ends the wait of a request in flight.
Hang ==
    /\ ~store_hangs
    /\ store_hangs' = TRUE
    /\ UNCHANGED <<worker, hash_seed>>
    /\ UNCHANGED <<limiterVars, appVars, taskVars, pipeVars, wsVars>>

\* The store call of some request in flight comes back, with a reply or
\* with an error.
StoreReturns ==
    \E q \in BagToSet(inflight) : StoreExecute(q) \/ StoreError(q)

HangNext ==
    \/ Tick
    \/ \E i \in BurstInputs : Dispatch(i[1], i[2], i[3])
    \/ \E q \in BagToSet(inflight) : StoreExecute(q)
    \/ \E q \in BagToSet(inflight) : StoreError(q)
    \/ Hang

\* A store that has not hung answers every call.
SpecHang == Init /\ [][HangNext]_vars /\ WF_vars(StoreReturns)

\* The next request is accepted by server process w.
Accept(w) ==
    /\ w \in DOMAIN hash_seed
    /\ w # worker
    /\ worker' = w
    /\ UNCHANGED <<hash_seed, store_hangs>>
    /\ UNCHANGED <<limiterVars, appVars, taskVars, pipeVars, wsVars>>

WorkersNext ==
    \/ Tick
    \/ \E i \in BurstInputs : Dispatch(i[1], i[2], i[3])
    \/ \E q \in BagToSet(inflight) : StoreExecute(q)
    \/ \E q \in BagToSet(inflight) : StoreError(q)
    \/ \E w \in Workers : Accept(w)

SpecWorkers == InitWorkers /\ [][WorkersNext]_vars

\* A request sent to the application of create_application passes the
\* middlewares of app.user_middleware and is served by its route function.
AppServe(host, agent, path) ==
    /\ arrived < BurstReqs
    /\ arrived' = arrived + 1
    /\ app_log' = Append(app_log, [path |-> path, through |-> user_middleware,
                                   handler |-> ServedBy(path)])
    /\ UNCHANGED <<clock, zset, expire_at, inflight, resp, ref, admitted, batch, self>>
    /\ UNCHANGED <<deployVars, taskVars, pipeVars, wsVars>>

AppNext == \E i \in AppInputs : AppServe(i[1], i[2], i[3])

SpecApp == Init /\ [][AppNext]_vars

\* POST /api/v1/tasks/ by user_id with the body `task`.
CreateTask(user_id, task) ==
    /\ Cardinality(task_table) < MaxTasks
    /\ task_table' = create_task(task_table, task, user_id)
    /\ UNCHANGED listing
    /\ UNCHANGED <<limiterVars, deployVars, appVars, pipeVars, wsVars>>

\* GET /api/v1/tasks/ by current_user.
ReadTasks(current_user, project_id, skip, limit) ==
    /\ \E rows \in read_tasks(task_table, current_user, project_id, skip, limit) :
          listing' = [user |-> current_user, project_id |-> project_id,
                      skip |-> skip, limit |-> limit, rows |-> rows]
    /\ UNCHANGED task_table
    /\ UNCHANGED <<limiterVars, deployVars, appVars, pipeVars, wsVars>>

TasksNext ==
    \/ \E u \in Users, p \in ProjectIds \cup {NoProject} :
          CreateTask(u, [project_id |-> p, status |-> "todo"])
    \/ \E u \in Users, p \in ProjectIds \cup {NoProject, 0},
          skip \in 0..1, limit \in 1..MaxTasks :
             ReadTasks(u, p, skip, limit)

SpecTasks == Init /\ [][TasksNext]_vars

\* PUT /api/v1/tasks/{task_id} by user_id with the body `task_update`.
UpdateTask(task_id, task_update, user_id) ==
    /\ task_table' = update_task(task_table, task_id, task_update, user_id, clock)
    /\ task_table' # task_table
    /\ UNCHANGED listing
    /\ UNCHANGED <<limiterVars, deployVars, appVars, pipeVars, wsVars>>

\* The statuses the bodies of the checked requests carry.
BodyStatuses == {"todo", "in_progress", "done"}

CompletionNext ==
    \/ Tick
    \/ \E u \in Users, st \in BodyStatuses :
          CreateTask(u, [project_id |-> NoProject, status |-> st])
    \/ \E id \in 1..MaxTasks, st \in BodyStatuses \cup {Unset}, u \in Users :
          UpdateTask(id, [status |-> st], u)

SpecCompletion == Init /\ [][CompletionNext]_vars

\* ------------------------------------------------- the pipeline by command
Transactional_Off == FALSE

\* redis_client.pipeline() is called without arguments: transaction=True,
\* the queued commands travel between MULTI and EXEC.
Transactional == TRUE

\* await pipe.execute() of request q reaches the store, which starts on its
\* commands.  A MULTI/EXEC block is not started while another one runs.
PipeBegin(q) ==
    /\ BagIn(q, inflight)
    /\ Transactional => pipe = EmptyBag
    /\ inflight' = inflight (-) SetToBag({q})
    /\ pipe' = pipe (+) SetToBag({[q |-> q, done |-> 0, before |-> zset[q.key],
                                   zcard |-> 0]})
    /\ UNCHANGED <<clock, zset, expire_at, arrived, resp, ref, admitted, batch, self>>
    /\ UNCHANGED <<deployVars, appVars, taskVars, wsVars>>

\* The pipeline p after its next command, which returned zcard_result.
Advance(p, zcard_result) ==
    (pipe (-) SetToBag({p})) (+)
        SetToBag({[p EXCEPT !.done = @ + 1, !.zcard = zcard_result]})

\* pipe.zremrangebyscore(key, 0, window_start)
CmdZRemRangeByScore(p) ==
    /\ BagIn(p, pipe) /\ p.done = 0
    /\ zset' = [zset EXCEPT ![p.q.key] = Trim(@, p.q.current_time, p.q.window)]
    /\ pipe' = Advance(p, p.zcard)
    /\ UNCHANGED <<clock, expire_at, arrived, inflight, resp, ref, admitted, batch, self>>
    /\ UNCHANGED <<deployVars, appVars, taskVars, wsVars>>

\* pipe.zcard(key)
CmdZCard(p) ==
    /\ BagIn(p, pipe) /\ p.done = 1
    /\ pipe' = Advance(p, ZCard(zset[p.q.key]))
    /\ UNCHANGED <<clock, zset, expire_at, arrived, inflight, resp, ref, admitted,
                   batch, self>>
    /\ UNCHANGED <<deployVars, appVars, taskVars, wsVars>>

\* pipe.zadd(key, {str(current_time): current_time})
CmdZAdd(p) ==
    /\ BagIn(p, pipe) /\ p.done = 2
    /\ zset' = [zset EXCEPT ![p.q.key] = ZAdd(@, p.q.current_time)]
    /\ pipe' = Advance(p, p.zcard)
    /\ UNCHANGED <<clock, expire_at, arrived, inflight, resp, ref, admitted, batch, self>>
    /\ UNCHANGED <<deployVars, appVars, taskVars, wsVars>>

\* pipe.expire(key, window); the replies go back, execute() returns them
\* and dispatch answers.
CmdExpire(p) ==
    /\ BagIn(p, pipe) /\ p.done = 3
    /\ LET q == p.q
           result == Checked(p.zcard, q.limit, q.current_time, q.window)
       IN  /\ expire_at' = [expire_at EXCEPT ![q.key] = Expire(clock, q.window)]
           /\ resp' = Respond(q, FALSE, p.before, result)
           /\ ref' = [ref EXCEPT ![q.key] = @ (+) SetToBag({q.current_time})]
           /\ admitted' = [admitted EXCEPT ![q.key] =
                              IF result.is_allowed THEN @ + 1 ELSE @]
    /\ pipe' = pipe (-) SetToBag({p})
    /\ UNCHANGED <<clock, zset, arrived, inflight, batch, self>>
    /\ UNCHANGED <<deployVars, appVars, taskVars, wsVars>>

\* A second passes between two store operations.
PipeTick == pipe = EmptyBag /\ Tick

PipeNext ==
    \/ PipeTick
    \/ \E i \in BurstInputs : Dispatch(i[1], i[2], i[3])
    \/ \E q \in BagToSet(inflight) : PipeBegin(q)
    \/ \E p \in BagToSet(pipe) : CmdZRemRangeByScore(p)
    \/ \E p \in BagToSet(pipe) : CmdZCard(p)
    \/ \E p \in BagToSet(pipe) : CmdZAdd(p)
    \/ \E p \in BagToSet(pipe) : CmdExpire(p)

SpecPipeline == Init /\ [][PipeNext]_vars

\* ------------------------------------------------------ websocket_chat
\* websocket_chat calls manager.connect, which awaits websocket.accept().
WsConnect(c) ==
    /\ ws_pc[c] = "idle"
    /\ ws_pc' = [ws_pc EXCEPT ![c] = "accept"]
    /\ UNCHANGED <<active_connections, groups, online_users, joined, delivered>>
    /\ UNCHANGED <<limiterVars, deployVars, appVars, taskVars, pipeVars>>

\* accept() returns: connect records the connection and awaits sadd.
WsAccepted(c) ==
    /\ ws_pc[c] = "accept"
    /\ active_connections' = [active_connections EXCEPT ![UserOf(c)] = @ \cup {c}]
    /\ ws_pc' = [ws_pc EXCEPT ![c] = "sadd"]
    /\ UNCHANGED <<groups, online_users, joined, delivered>>
    /\ UNCHANGED <<limiterVars, deployVars, appVars, taskVars, pipeVars>>

\* The store executes the sadd of connect; connect awaits publish.
StoreSAdd(c) ==
    /\ ws_pc[c] = "sadd"
    /\ online_users' = online_users \cup {UserOf(c)}
    /\ ws_pc' = [ws_pc EXCEPT ![c] = "publish_connected"]
    /\ UNCHANGED <<active_connections, groups, joined, delivered>>
    /\ UNCHANGED <<limiterVars, deployVars, appVars, taskVars, pipeVars>>

\* publish returns and so does connect.
ConnectReturns(c) ==
    /\ ws_pc[c] = "publish_connected"
    /\ ws_pc' = [ws_pc EXCEPT ![c] = "connected"]
    /\ UNCHANGED <<active_connections, groups, online_users, joined, delivered>>
    /\ UNCHANGED <<limiterVars, deployVars, appVars, taskVars, pipeVars>>

\* manager.join_group(user.id, connection_id, f"chat_{room_id}") with its
\* user_joined_group broadcast; the coroutine enters its receive loop.
JoinGroup(c) ==
    /\ ws_pc[c] = "connected"
    /\ groups' = join_group(groups, UserOf(c), c, Room)
    /\ joined' = joined \cup {c}
    /\ delivered' = [sent |-> TRUE, group |-> Room,
                     to |-> Recipients(groups', active_connections, Room),
                     expected |-> joined']
    /\ ws_pc' = [ws_pc EXCEPT ![c] = "open"]
    /\ UNCHANGED <<active_connections, online_users>>
    /\ UNCHANGED <<limiterVars, deployVars, appVars, taskVars, pipeVars>>

\* handle_chat_message for a message received on c: broadcast to the room.
ChatMessage(c) ==
    /\ ws_pc[c] = "open"
    /\ delivered' = [sent |-> TRUE, group |-> Room,
                     to |-> Recipients(groups, active_connections, Room),
                     expected |-> joined]
    /\ UNCHANGED <<ws_pc, active_connections, groups, online_users, joined>>
    /\ UNCHANGED <<limiterVars, deployVars, appVars, taskVars, pipeVars>>

\* WebSocketDisconnect on c: manager.disconnect(user.id, connection_id) up
\* to its first await, srem if the user has no connection left and
\* publish otherwise.
WsDisconnect(c) ==
    /\ ws_pc[c] = "open"
    /\ active_connections' = [active_connections EXCEPT ![UserOf(c)] = @ \ {c}]
    /\ joined' = joined \ {c}
    /\ IF active_connections'[UserOf(c)] = {}
       THEN /\ ws_pc' = [ws_pc EXCEPT ![c] = "srem"]
            /\ UNCHANGED groups
       ELSE /\ ws_pc' = [ws_pc EXCEPT ![c] = "publish_disconnected"]
            /\ groups' = DropFromGroups(groups, UserOf(c), c)
    /\ UNCHANGED <<online_users, delivered>>
    /\ UNCHANGED <<limiterVars, deployVars, appVars, taskVars, pipeVars>>

\* The store executes the srem of disconnect, which goes on to its group
\* loop and awaits publish.
StoreSRem(c) ==
    /\ ws_pc[c] = "srem"
    /\ online_users' = online_users \ {UserOf(c)}
    /\ groups' = DropFromGroups(groups, UserOf(c), c)
    /\ ws_pc' = [ws_pc EXCEPT ![c] = "publish_disconnected"]
    /\ UNCHANGED <<active_connections, joined, delivered>>
    /\ UNCHANGED <<limiterVars, deployVars, appVars, taskVars, pipeVars>>

\* publish returns and so does disconnect.
DisconnectReturns(c) ==
    /\ ws_pc[c] = "publish_disconnected"
    /\ ws_pc' = [ws_pc EXCEPT ![c] = "leaving"]
    /\ UNCHANGED <<active_connections, groups, online_users, joined, delivered>>
    /\ UNCHANGED <<limiterVars, deployVars, appVars, taskVars, pipeVars>>

\* manager.leave_group(user.id, f"chat_{room_id}") in the finally block,
\* with its user_left_group broadcast if the user had an entry.
LeaveGroup(c) ==
    /\ ws_pc[c] = "leaving"
    /\ ws_pc' = [ws_pc EXCEPT ![c] = "closed"]
    /\ IF groups[Room][UserOf(c)] # NoConn
       THEN /\ groups' = leave_group(groups, UserOf(c), Room)
            /\ delivered' = [sent |-> TRUE, group |-> Room,
                             to |-> Recipients(groups', active_connections, Room),
                             expected |-> joined]
       ELSE UNCHANGED <<groups, delivered>>
    /\ UNCHANGED <<active_connections, online_users, joined>>
    /\ UNCHANGED <<limiterVars, deployVars, appVars, taskVars, pipeVars>>

WsNext ==
    \E c \in Conns :
        \/ WsConnect(c)
        \/ WsAccepted(c)
        \/ StoreSAdd(c)
        \/ ConnectReturns(c)
        \/ JoinGroup(c)
        \/ ChatMessage(c)
        \/ WsDisconnect(c)
        \/ StoreSRem(c)
        \/ DisconnectReturns(c)
        \/ LeaveGroup(c)

SpecWs == Init /\ [][WsNext]_vars

\* ------------------------------------------------------------- properties
HeaderNames == {"X-RateLimit-Limit", "X-RateLimit-Remaining", "X-RateLimit-Reset"}

\* Number of executed pipelines of key k whose current_time lies in S.
Recorded(k, S) ==
    BagCardinality([t \in (DOMAIN ref[k]) \cap S |-> ref[k][t]])

\* The seconds t with now - W < t: the window of a request evaluated at now.
Window(now, W) == {t \in Times : now - W < t}

\* The executed pipelines of the answered request's key that lie in its
\* window, the answered request included.
InWindow == Recorded(resp.key, Window(resp.current_time, resp.window))

\* C1 (boundary correctness): a request the store evaluated is admitted iff
\* fewer than N earlier requests of its key lie in its window of W seconds,
\* so of N+1 requests in one window the first N are admitted and the
\* (N+1)th is rejected, whatever their timestamps.
C1_BoundaryCorrectness ==
    resp.evaluated => (resp.is_allowed <=> InWindow - 1 < resp.limit)

\* C2 (atomicity under concurrency): when 2N requests of one key were all in
\* flight together within one window and the store evaluated all of them,
\* exactly N were admitted and N rejected.
C2_ConcurrentBurst ==
    \A k \in AllKeys :
        LET times == DOMAIN ref[k]
            N == default_requests
        IN  ( /\ batch
              /\ inflight = EmptyBag
              /\ arrived = 2 * N
              /\ resp.store_calls = 1
              /\ BagCardinality(ref[k]) = 2 * N
              /\ resp.key = k /\ resp.limit = N
              /\ \A t, u \in times : t - u < resp.window )
            => (admitted[k] = N /\ BagCardinality(ref[k]) - admitted[k] = N)

\* C3 (fail-open): a request whose store call raised is passed to the
\* handler, is not answered 429, and no exception leaves dispatch.
C3_FailOpen ==
    resp.store_error =>
        /\ resp.called_next
        /\ resp.status = StatusHandler
        /\ resp.status # 429
        /\ ~resp.raised

\* C3 witness: the store call fails for a key that already holds as many
\* entries as its limit, and the request is still admitted.
C3_Witness ==
    /\ resp.store_error
    /\ resp.called_next
    /\ Cardinality(zset[resp.key]) >= resp.limit

\* C4 (window exclusion): the count of a decision taken at now is at most
\* one plus the number of timestamps t >= now - W the store held for the
\* key; a timestamp older than now - W never adds to it.
C4_WindowExclusion ==
    resp.evaluated =>
        resp.current_count <=
            1 + Cardinality({t \in resp.before :
                                t >= resp.current_time - resp.window})

\* C4 witness: a decision is taken while the store still holds, for the
\* key, a timestamp older than now - W.
C4_Witness ==
    /\ resp.evaluated
    /\ \E t \in resp.before : t < resp.current_time - resp.window

\* The store record of the key of a request (host, agent, path).
KeyOf(h, a, p) == RateLimitKey(_get_client_id(h, a), p)

\* The (client identity, path) of a request: the identity is the source
\* address with the hash of the user-agent.
Identity(h, a, p) == <<h, Hash(a), p>>

\* C5 (per-key independence): a step taken for a request of one
\* (client, path) leaves the sorted set and the expiry of every other
\* (client, path) as they were.
C5_PerKeyIndependence ==
    [][ \A q \in BagToSet(inflight) \cup BagToSet(inflight') :
          CopiesIn(q, inflight) # CopiesIn(q, inflight') =>
             \A i \in Inputs :
                Identity(i[1], i[2], i[3]) # Identity(q.host, q.agent, q.path) =>
                   /\ zset'[KeyOf(i[1], i[2], i[3])] = zset[KeyOf(i[1], i[2], i[3])]
                   /\ expire_at'[KeyOf(i[1], i[2], i[3])] =
                         expire_at[KeyOf(i[1], i[2], i[3])]
      ]_vars

\* C5 witness: a request was evaluated and recorded under one key while
\* the key of the same client for another path holds a record of its own.
C5_Witness ==
    /\ resp.evaluated
    /\ resp.key = KeyOf("10.0.0.1", "curl", "/api/v1/items")
    /\ zset[resp.key] # {}
    /\ zset[KeyOf("10.0.0.1", "curl", "/api/v1/auth/login")] # {}

\* C6 (exempt paths): a request to /health, /metrics, /docs or /redoc never
\* waits on the store, is passed to the handler, and its response has no
\* rate-limit header.
C6_ExemptPaths ==
    /\ \A q \in BagToSet(inflight) :
          q.path \notin {"/health", "/metrics", "/docs", "/redoc"}
    /\ resp.path \in {"/health", "/metrics", "/docs", "/redoc"} =>
          /\ resp.called_next
          /\ resp.status = StatusHandler
          /\ resp.store_calls = 0
          /\ resp.headers = NoHeaders

\* C6 witness: an exempt request is served to a client whose key is at its
\* limit, while another request of the client waits on the store.
C6_Witness ==
    /\ resp.path = "/health"
    /\ resp.called_next
    /\ inflight # EmptyBag
    /\ \E k \in AllKeys : Cardinality(zset[k]) >= default_requests

\* C7 (window rollover): when every timestamp recorded for the key is at
\* least W seconds older than the request (as after W idle seconds), the
\* request is admitted with currentCount 1.
C7_WindowRollover ==
    ( /\ resp.evaluated
      /\ ref[resp.key][resp.current_time] = 1
      /\ \A t \in DOMAIN ref[resp.key] :
            t = resp.current_time \/ t + resp.window <= resp.current_time )
    => (resp.is_allowed /\ resp.current_count = 1)

\* C7 witness: the key had reached its limit (N recorded requests), W
\* seconds passed since the last of them, and the next request is admitted
\* with count 1.
C7_Witness ==
    /\ resp.evaluated
    /\ resp.is_allowed
    /\ resp.current_count = 1
    /\ Recorded(resp.key, Times \ {resp.current_time}) >= resp.limit
    /\ resp.before = {}
    /\ \A t \in DOMAIN ref[resp.key] :
          t = resp.current_time \/ t + resp.window = resp.current_time
                                \/ t + resp.window < resp.current_time
    /\ \E t \in DOMAIN ref[resp.key] : t + resp.window = resp.current_time

\* C8 (header accuracy on admit): an admitted request the store evaluated
\* carries X-RateLimit-Limit = L and X-RateLimit-Remaining = L - C >= 0,
\* C being the number of requests of the key in the window, this one
\* included.
C8_HeaderAccuracy ==
    (resp.evaluated /\ resp.status # StatusTooManyRequests) =>
        /\ resp.headers["X-RateLimit-Limit"] = resp.limit
        /\ resp.headers["X-RateLimit-Remaining"] = resp.limit - InWindow
        /\ resp.headers["X-RateLimit-Remaining"] >= 0

\* C9 (Retry-After): a 429 carries Remaining 0 and a Retry-After that is a
\* positive integer <= W, the seconds from the building of the response to
\* the reset time.
C9_RetryAfter ==
    resp.status = StatusTooManyRequests =>
        /\ resp.headers["X-RateLimit-Remaining"] = 0
        /\ resp.headers["Retry-After"] >= 1
        /\ resp.headers["Retry-After"] <= resp.window
        /\ resp.headers["Retry-After"] =
              resp.headers["X-RateLimit-Reset"] - resp.built_at

\* C10 (rejection outcome): the answer is 429 with the fixed body iff the
\* request's currentCount exceeds MaxRequests; then the handler is not
\* called and the limit, remaining, reset and Retry-After headers are set.
C10_RejectionOutcome ==
    /\ (resp.status = 429 /\ resp.body = "{\"detail\": \"Rate limit exceeded\"}")
          <=> (resp.store_calls = 1 /\ resp.current_count > resp.limit)
    /\ (resp.store_calls = 1 /\ resp.current_count > resp.limit) =>
          /\ ~resp.called_next
          /\ DOMAIN resp.headers = HeaderNames \cup {"Retry-After"}
    /\ (resp.store_calls = 1 /\ resp.current_count <= resp.limit) =>
          resp.called_next

\* C10 witness: a request is rejected with 429, and one with currentCount
\* equal to the limit was admitted before it.
C10_Witness ==
    /\ resp.status = 429
    /\ resp.current_count = resp.limit + 1
    /\ ~resp.called_next
    /\ admitted[resp.key] = resp.limit

ClaimedPolicy(path) ==
    CASE ServedBy(path) = "login" -> [requests |-> 5, window |-> 60]
      [] ServedBy(path) = "register" -> [requests |-> 3, window |-> 60]
      [] ServedBy(path) = "read_projects" -> [requests |-> 50, window |-> 60]
      [] ServedBy(path) = "read_tasks" -> [requests |-> 100, window |-> 60]
      [] OTHER -> [requests |-> default_requests, window |-> default_window]

\* C12 (policy resolution): a request is evaluated under the explicit
\* policy of the endpoint that serves it when the table has one, and under
\* the default policy otherwise; a request served by the projects or the
\* tasks collection handler is evaluated under that endpoint's policy.
C12_PolicyResolution ==
    resp.store_calls = 1 =>
        [requests |-> resp.limit, window |-> resp.window] = ClaimedPolicy(resp.path)

\* C13 (trusted-address exemption): a request from 127.0.0.1 or localhost
\* never waits on the store and is passed to the handler without
\* rate-limit headers; a request from any other address for a non-exempt
\* path is answered only after its store call.
C13_TrustedAddress ==
    /\ \A q \in BagToSet(inflight) : q.host \notin {"127.0.0.1", "localhost"}
    /\ resp.host \in {"127.0.0.1", "localhost"} =>
          /\ resp.called_next
          /\ resp.status = StatusHandler
          /\ resp.store_calls = 0
          /\ resp.headers = NoHeaders
    /\ ( /\ resp.status # 0
         /\ resp.host \notin {"127.0.0.1", "localhost"}
         /\ resp.path \notin {"/health", "/metrics", "/docs", "/redoc"} )
       => resp.store_calls = 1

\* C13 witness: a request from 127.0.0.1 for a limited path is served by
\* the handler while a request of another address waits on the store.
C13_Witness ==
    /\ resp.host = "127.0.0.1"
    /\ resp.path = "/api/v1/items"
    /\ resp.called_next
    /\ resp.store_calls = 0
    /\ inflight # EmptyBag

\* C14 (bounded store call): a request that waits on the store is
\* eventually answered, also when the store never answers its call.
C14_BoundedStoreCall == (inflight # EmptyBag) ~> (inflight = EmptyBag)

\* Number of times a middleware class occurs in a stack.
Occurrences(class, stack) ==
    Cardinality({n \in 1..Len(stack) : stack[n] = class})

\* C15 (limiter installed): every request the application serves on a
\* non-exempt route passes RateLimiterMiddleware exactly once.
C15_EveryRouteLimited ==
    \A n \in 1..Len(app_log) :
        app_log[n].path \notin {"/health", "/metrics", "/docs", "/redoc"} =>
            Occurrences("RateLimiterMiddleware", app_log[n].through) = 1

\* C16 as stated (key expiry): a key that still has a record is less than
\* W seconds past the last timestamp recorded for it.
C16_ExpiryAfterLastTimestamp ==
    (resp.evaluated /\ zset[resp.key] # {}) =>
        \E t \in DOMAIN ref[resp.key] : clock < t + resp.window

\* C16 amended (key expiry): while the request evaluated last is the last
\* answered, the record of its key exists exactly until W seconds after the
\* store executed its pipeline, whether it was admitted or rejected; and a
\* record disappears only when the clock reaches the key's expiry.
C16_KeyExpiry ==
    [][ /\ resp'.evaluated =>
              /\ zset'[resp'.key] # {} <=> clock' < resp'.built_at + resp'.window
              /\ zset'[resp'.key] # {} =>
                    expire_at'[resp'.key] = resp'.built_at + resp'.window
        /\ \A k \in AllKeys :
              (zset[k] # {} /\ zset'[k] = {}) =>
                  /\ clock' = clock + 1
                  /\ expire_at[k] # NoTTL
                  /\ expire_at[k] <= clock'
      ]_vars

\* C16 witness: the store executed the pipeline after the second the
\* request had read, W seconds have passed since the execution, and the
\* record is gone.
C16_Witness ==
    /\ resp.evaluated
    /\ resp.built_at > resp.current_time
    /\ clock = resp.built_at + resp.window
    /\ zset[resp.key] = {}

Filed ==
    {[host |-> q.host, agent |-> q.agent, path |-> q.path, key |-> q.key] :
        q \in BagToSet(inflight)}
    \cup (IF resp.store_calls = 1
          THEN {[host |-> resp.host, agent |-> resp.agent, path |-> resp.path,
                 key |-> resp.key]}
          ELSE {})

\* C18 (identity determinism): two requests with the same source address,
\* user-agent and path are filed under the same key, also when different
\* server processes serve them.
C18_IdentityDeterminism ==
    \A q1, q2 \in Filed :
        (q1.host = q2.host /\ q1.agent = q2.agent /\ q1.path = q2.path)
            => q1.key = q2.key

\* C19 (own tasks only): every row read_tasks returns is owned by the
\* authenticated user, for every project_id filter and page.
C19_OnlyOwnTasks ==
    \A t \in listing.rows : t.owner_id = listing.user

\* C20 as stated (window edge): the count of a decision taken at now is one
\* plus the number of timestamps t >= now - W the store held for the key,
\* so a timestamp equal to now - W is kept and counts.
C20_EdgeKept ==
    resp.evaluated =>
        resp.current_count =
            1 + Cardinality({t \in resp.before :
                                t >= resp.current_time - resp.window})

\* C20 amended (window edge): the trim removes the timestamps t <= now - W;
\* the count of a decision taken at now is one plus the number of
\* timestamps t > now - W the store held for the key, so a timestamp equal
\* to now - W is removed and does not count.
C20_EdgeRemoved ==
    resp.evaluated =>
        /\ resp.current_count =
              1 + Cardinality({t \in resp.before :
                                  t > resp.current_time - resp.window})
        /\ (resp.current_time - resp.window) \notin zset[resp.key]

\* C20 witness: a decision is taken while the store holds, for the key, a
\* timestamp equal to now - W.
C20_Witness ==
    /\ resp.evaluated
    /\ (resp.current_time - resp.window) \in resp.before

\* C21 (count against a reference log): the currentCount of a request the
\* store evaluated is the number of executed pipelines of its key whose
\* timestamp lies in its window, itself included, as a log with one entry
\* per request would count them.
C21_ReferenceCount ==
    resp.evaluated => resp.current_count = InWindow

\* The X-RateLimit-Reset header of a response.
ResetOf(r) == r.headers["X-RateLimit-Reset"]

\* The step answers, from the store, the request of the key of the last
\* response that read the clock at that response's reset second.
NextAtReset ==
    /\ resp.store_calls = 1
    /\ ref' # ref
    /\ resp'.evaluated
    /\ resp'.key = resp.key
    /\ resp'.current_time = ResetOf(resp)

\* C23 as stated (reset time): X-RateLimit-Reset is the evaluation time
\* plus W, and the next request of the key, evaluated at that second with
\* no request in between, has currentCount 1.
C23_ResetTime ==
    [][ /\ resp'.store_calls = 1 =>
              ResetOf(resp') = resp'.current_time + resp'.window
        /\ NextAtReset => resp'.current_count = 1
      ]_vars

\* C23 amended (reset time): X-RateLimit-Reset is the evaluation time plus
\* W, and the next request of the key, evaluated at that second with no
\* request in between, has currentCount 1 provided no timestamp recorded
\* for the key is later than the evaluation time of the response.
C23_ResetTimeInOrder ==
    [][ /\ resp'.store_calls = 1 =>
              ResetOf(resp') = resp'.current_time + resp'.window
        /\ (NextAtReset /\ \A t \in zset[resp.key] : t <= resp.current_time)
              => resp'.current_count = 1
      ]_vars

\* C23 witness: a request evaluated W seconds after the only timestamp
\* the store holds for its key is counted alone.
C23_Witness ==
    /\ resp.evaluated
    /\ resp.before = {resp.current_time - resp.window}
    /\ resp.current_count = 1
    /\ resp.headers["X-RateLimit-Reset"] = resp.current_time + resp.window

\* The step answers, from the store, a request of the key of the last
\* response, which was rejected one second earlier as the only request of
\* its second and is still on record.
NextSecondAfterReject ==
    /\ resp.evaluated
    /\ ~resp.is_allowed
    /\ resp.current_time \notin resp.before
    /\ resp.current_time \in zset[resp.key]
    /\ ref' # ref
    /\ resp'.evaluated
    /\ resp'.key = resp.key
    /\ resp'.current_time = resp.current_time + 1

\* C25 (rejected requests are recorded): every evaluated request, admitted
\* or rejected, leaves its timestamp in the key's set and refreshes the
\* expiry; and the request that follows a rejected one a second later is
\* rejected too.
C25_RejectedRecorded ==
    [][ /\ (resp'.evaluated /\ ref' # ref) =>
              /\ resp'.current_time \in zset'[resp'.key]
              /\ expire_at'[resp'.key] = clock' + resp'.window
        /\ NextSecondAfterReject => ~resp'.is_allowed
      ]_vars

\* C25 witness: a request is rejected one second after a rejected request,
\* whose timestamp the store held.
C25_Witness ==
    /\ resp.evaluated
    /\ ~resp.is_allowed
    /\ (resp.current_time - 1) \in resp.before
    /\ admitted[resp.key] = resp.limit
    /\ BagCardinality(ref[resp.key]) >= resp.limit + 2

\* C26 as stated (bounded count): after the trim the set holds at most W
\* members, currentCount is at most W + 1, and a request under a policy
\* with MaxRequests >= W + 1 is never rejected.
C26_BoundedCount ==
    resp.evaluated =>
        /\ ZCard(Trim(resp.before, resp.current_time, resp.window)) <= resp.window
        /\ resp.current_count <= resp.window + 1
        /\ resp.limit >= resp.window + 1 => resp.is_allowed
        /\ \A n \in (resp.window + 1)..(resp.window + 2) :
              IsAllowed(resp.current_count, n)

\* C26 amended (bounded count): after the trim the set holds at most W + d
\* members and currentCount is at most W + d + 1, d being the seconds
\* between the request's reading of the clock and the execution of its
\* pipeline; a request whose pipeline runs in the second it read (d = 0)
\* is never rejected under a policy with MaxRequests >= W + 1.
C26_BoundedCountDelay ==
    resp.evaluated =>
        LET d == resp.built_at - resp.current_time
        IN  /\ ZCard(Trim(resp.before, resp.current_time, resp.window))
                  <= resp.window + d
            /\ resp.current_count <= resp.window + d + 1
            /\ (d = 0 /\ resp.limit >= resp.window + 1) => resp.is_allowed
            /\ d = 0 => \A n \in (resp.window + 1)..(resp.window + 2) :
                           IsAllowed(resp.current_count, n)

\* C26 witness: a request executed in the second it read reaches
\* currentCount W + 1.
C26_Witness ==
    /\ resp.evaluated
    /\ resp.built_at = resp.current_time
    /\ resp.current_count = resp.window + 1

\* C24 (stateless controller): the attributes of the middleware instance
\* are the constructed ones in every state, whatever dispatch answered;
\* the decision of an evaluated request is computed from the set the store
\* held for its key and from its policy, and the decision after a store
\* failure is the fixed fail-open answer.
C24_Stateless ==
    /\ self = Constructed
    /\ resp.evaluated =>
          /\ resp.current_count =
                ZCard(Trim(resp.before, resp.current_time, resp.window)) + 1
          /\ resp.is_allowed <=> resp.current_count <= resp.limit
          /\ [requests |-> resp.limit, window |-> resp.window] =
                (IF resp.path \in DOMAIN Constructed.endpoint_limits
                 THEN Constructed.endpoint_limits[resp.path]
                 ELSE [requests |-> Constructed.default_requests,
                       window |-> Constructed.default_window])
    /\ resp.store_error => (resp.is_allowed /\ resp.current_count = 0)

\* C24 witness: all requests of a burst have arrived, the last answer is a
\* rejection, and requests were admitted before it.
C24_Witness ==
    /\ arrived = BurstReqs
    /\ resp.status = StatusTooManyRequests
    /\ admitted[resp.key] > 0
    /\ self = Constructed

\* The pipelines of key k the store has started and not finished.
InProgress(k) ==
    BagCardinality([p \in {x \in BagToSet(pipe) : x.q.key = k} |-> pipe[p]])

\* C22 (single atomic store operation): the store never has two pipelines
\* in progress, so no command of another request runs between the trim,
\* count, add and expire of one request; when the last command of a
\* pipeline has run, the set of its key is the set the pipeline found,
\* trimmed, plus its own member, and the count that comes back is the
\* size of that trimmed set; the answer costs one awaited store call; a
\* request is not kept from reaching the store by another one's pipeline.
C22_AtomicPipeline ==
    [][ /\ BagCardinality(pipe') <= 1
        /\ \A k \in AllKeys : InProgress(k)' <= 1
        /\ \A p \in BagToSet(pipe) :
              (p.done = 3 /\ ~BagIn(p, pipe')) =>
                 LET trimmed == Trim(p.before, p.q.current_time, p.q.window)
                 IN  /\ zset'[p.q.key] = ZAdd(trimmed, p.q.current_time)
                     /\ resp'.current_count = ZCard(trimmed) + 1
                     /\ resp'.store_calls = 1
        /\ \A i \in BurstInputs :
              (ENABLED Dispatch(i[1], i[2], i[3])) <=> arrived < MaxReqs
      ]_vars

\* C22 witness: the pipeline of one request is between its count and its
\* add while a later request of the same key waits in execute().
C22_Witness ==
    \E p \in BagToSet(pipe), q \in BagToSet(inflight) :
        /\ p.done = 2
        /\ q.key = p.q.key
        /\ q.current_time > p.q.current_time

\* C27 (task completion): every task is completed exactly if its status is
\* DONE, and has a completion date exactly if it is completed.
C27_CompletionInvariant ==
    \A t \in task_table :
        /\ t.is_completed <=> t.status = "done"
        /\ t.completion_date # NoDate <=> t.is_completed

\* C28 (group membership): every broadcast to the room is sent to every
\* connection that joined the room and has neither left it nor been
\* disconnected.
C28_GroupMembership ==
    delivered.sent => delivered.expected \subseteq delivered.to

\* No connect or disconnect call is between its first and its last await.
Quiescent ==
    \A c \in Conns :
        ws_pc[c] \notin {"accept", "sadd", "publish_connected", "srem",
                         "publish_disconnected"}

\* C29 (presence): whenever no connect or disconnect call is in progress,
\* the store set online_users holds exactly the users that have a
\* connection in active_connections.
C29_Presence ==
    Quiescent =>
        \A u \in WsUsers : u \in online_users <=> active_connections[u] # {}

====
